---- MODULE Spec2Model ----
(***************************************************************************)
(* QueryQueue (src/app/core/queue.py): the in-memory background task queue *)
(* of the Financial RAG API, run by one asyncio event loop.                *)
(*                                                                         *)
(* A step of the model is one uninterrupted run of a coroutine between two *)
(* suspension points of the event loop.  asyncio.Lock.acquire() on a free  *)
(* lock does not suspend, and no "async with self._lock" body awaits, so   *)
(* add_task and clear_completed are one step each and _execute_task is one *)
(* step up to "await task_fn(...)" and one step after it (both in one step *)
(* when the operation finishes without suspending).                        *)
(***************************************************************************)
EXTENDS Integers, Sequences, FiniteSets, TLC

\* ------------------------------------------------------------------ bounds
\* add_task calls in a run.
MaxTasks == 2
\* Last reading of the clock, in clock units.
MaxTime == 1
\* Clock units per second (datetime resolves 10^6 per second).
UnitsPerSec == 2

\* max_age_seconds values passed to clear_completed.
MaxAges == {-1, 0, 1}

\* ------------------------------------------------------------- TaskStatus
PENDING == "pending"
RUNNING == "running"
COMPLETED == "completed"
FAILED == "failed"

\* Python's None as a result, as an error and as a timestamp.
None == "None"
NoError == << >>
NoTime == << >>

\* ------------------------------------------------- operations (task_fn)
\* A callable handed to add_task: whether it carries __name__, whether the
\* awaited call suspends before it finishes, and how it finishes.
Returns(name, has_name, suspends, value) ==
    [name |-> name, has_name |-> has_name, suspends |-> suspends,
     outcome |-> "return", value |-> value, exc_base |-> "", exc_type |-> "",
     exc_msg |-> ""]

Raises(name, suspends, base, type, msg) ==
    [name |-> name, has_name |-> TRUE, suspends |-> suspends,
     outcome |-> "raise", value |-> None, exc_base |-> base, exc_type |-> type,
     exc_msg |-> msg]

Hangs(name) ==
    [name |-> name, has_name |-> TRUE, suspends |-> TRUE,
     outcome |-> "hang", value |-> None, exc_base |-> "", exc_type |-> "",
     exc_msg |-> ""]

\* chat_async_v1's closure: awaits answer_financial_question on a worker
\* thread, then returns its answer or raises what it raised.
process_query ==
    { Returns("process_query", TRUE, TRUE, "answer"),
      Raises("process_query", TRUE, "Exception", "RuntimeError", "LLM unreachable") }

Callables ==
    process_query \cup
    { Returns("returns_none", TRUE, FALSE, None),
      Returns("", FALSE, TRUE, "42"),
      Raises("bad_input", FALSE, "Exception", "ValueError", "bad input"),
      Raises("cancelled", TRUE, "BaseException", "CancelledError", ""),
      Hangs("hangs") }


\* The HTTP handlers of server.py that use the queue.
Handlers == {"chat_async_v1", "get_task_status_v1", "queue_stats"}

\* ------------------------------------------------------------------ state
VARIABLES
    tasks,      \* self._tasks: task_id -> record
    locked,     \* self._lock.locked()
    coros,      \* the event loop's _execute_task coroutines: task_id -> [fn, pc]
    clock,      \* datetime.utcnow(), in clock units
    issued,     \* how many ids uuid.uuid4() has produced
    returned,   \* what the call that has just finished gave its caller
    held,       \* the record a caller keeps from a read, and how it got it
    global_queue,   \* the module global _global_queue (0 is None)
    created,    \* how many QueryQueue() instances were constructed
    obtained,   \* the instance get_query_queue() gave each HTTP handler
    cleared,    \* the sum of the values clear_completed has returned
    order,      \* the keys of self._tasks in the dict's order
    clearing,   \* the clear_completed call the event loop is running
    reading     \* the get_task_status call in flight on the reader's thread

vars == <<tasks, locked, coros, clock, issued, returned, held, global_queue,
          created, obtained, cleared, order, clearing, reading>>

Idle == [op |-> "", val |-> 0, raised |-> "", status |-> ""]

\* ------------------------------------------------------------- timestamps
\* datetime.isoformat(): the fraction is left out when it is zero.
isoformat(dt) ==
    IF dt % UnitsPerSec = 0 THEN <<dt \div UnitsPerSec>>
    ELSE <<dt \div UnitsPerSec, dt % UnitsPerSec>>

\* datetime.fromisoformat(): a missing fraction reads as zero.
fromisoformat(s) ==
    s[1] * UnitsPerSec + (IF Len(s) > 1 THEN s[2] ELSE 0)

\* ------------------------------------------------- records held by callers
\* A caller holds nothing, a dict of its own ("copy") or the very dict the
\* store holds ("alias").  rec is what the caller sees in it now, orig what
\* it saw when it got it, written whether the caller assigned to it, shared
\* whether the store still holds that very dict.
NoRecord == [task_id |-> 0, status |-> "", result |-> None,
             error |-> NoError, created_at |-> NoTime, started_at |-> NoTime,
             completed_at |-> NoTime, function_name |-> ""]

NoHeld == [via |-> "", kind |-> "", id |-> 0, rec |-> NoRecord,
           orig |-> NoRecord, written |-> FALSE, shared |-> FALSE]

\* A dict shared with the store shows every write the store's owner makes
\* to it for as long as the store holds it; a dict of the caller's own
\* shows none.  The store lets go of a dict when its key is deleted and when
\* "self._tasks[task_id] = {...}" puts a new dict under its key (assigned,
\* the keys so assigned in the step); the caller's dict then stays as it is.
HeldAfterStep(assigned) ==
    IF held.shared
    THEN IF held.id \in DOMAIN tasks' /\ held.id \notin assigned
         THEN [held EXCEPT !.rec = tasks'[held.id]]
         ELSE [held EXCEPT !.shared = FALSE]
    ELSE held

\* The keys of self._tasks after a step, in the dict's order: a key that
\* stays keeps its place, also when it is assigned again, a deleted key
\* leaves, and a new key goes to the end.
KeyOrder ==
    LET kept == SelectSeq(order, LAMBDA k : k \in DOMAIN tasks')
        new == DOMAIN tasks' \ DOMAIN tasks
    IN IF new = {} THEN kept ELSE Append(kept, CHOOSE k \in new : TRUE)

\* What follows the store over a step of the queue: the shared dict a
\* caller holds and the order of the keys.
StoreFollows ==
    /\ held' = HeldAfterStep({})
    /\ order' = KeyOrder

\* The same over a step that assigns a new dict to self._tasks[task_id].
StoreFollowsInsert(task_id) ==
    /\ held' = HeldAfterStep({task_id})
    /\ order' = KeyOrder

\* What a method of the queue, run by the one event loop, leaves alone: the
\* module global and the calls in flight, statement by statement, on the
\* loop and on the reader's thread.
Others ==
    /\ StoreFollows
    /\ UNCHANGED <<global_queue, created, obtained, clearing, reading>>

\* ------------------------------------------------------------ the store
\* Faulty variant: add_task leaves the insert to the background coroutine.
Insert_Deferred(store, task_id, rec) == store

\* Faulty variant: the store holds one record, an insert evicts the rest.
Insert_Evicting(store, task_id, rec) ==
    [k \in {task_id} |-> rec]

\* self._tasks[task_id] = rec: a dict assignment, which replaces silently.
Insert(store, task_id, rec) ==
    [k \in DOMAIN store \cup {task_id} |-> IF k = task_id THEN rec ELSE store[k]]

\* Faulty variant: the sweep counts the old records and deletes none.
Delete_None(store, to_remove) == store

\* del self._tasks[task_id] for every task_id of to_remove.
Delete(store, to_remove) ==
    [k \in DOMAIN store \ to_remove |-> store[k]]

\* ---------------------------------------------------------------- add_task
\* Faulty variant: the id is derived from the size of the store.
uuid4_FromSize == Cardinality(DOMAIN tasks) + 1

\* str(uuid.uuid4()): a token no earlier call produced.  Ids are opaque, so
\* the model names them by the order of issue.
uuid4 == issued + 1

\* task_fn.__name__ if hasattr(task_fn, "__name__") else "unknown"
function_name(task_fn) ==
    IF task_fn.has_name THEN task_fn.name ELSE "unknown"

\* The dict add_task stores under the new id.
NewRecord(task_id, task_fn) ==
    [task_id |-> task_id,
     status |-> PENDING,
     result |-> None,
     error |-> NoError,
     created_at |-> isoformat(clock),
     started_at |-> NoTime,
     completed_at |-> NoTime,
     function_name |-> function_name(task_fn)]

\* asyncio.create_task(self._execute_task(task_id, task_fn, ...)): the
\* coroutine is queued on the loop and has not run yet.  ended is the clock
\* reading at which the coroutine finished (-1 until then), skipped how many
\* of its "if task_id in self._tasks" tests found no record.
create_task(task_fn) ==
    [fn |-> task_fn, pc |-> "scheduled", ended |-> -1, skipped |-> 0]

\* logger.info(f"Task {task_id} added to queue: {task_fn.__name__}"): the
\* f-string reads __name__ with no hasattr guard.  The exception it raises,
\* "" when it raises none.
LogAdded(task_fn) ==
    IF task_fn.has_name THEN "" ELSE "AttributeError"

\* add_task up to its last statement: the insert under the lock and the
\* scheduling of the execution, as the one event loop runs it: nothing else
\* runs between its statements, and the lock, which no locked block keeps
\* across an await, is free when it is called.
AddTaskBody(task_fn) ==
    /\ issued < MaxTasks
    /\ ~locked
    /\ tasks' = Insert(tasks, uuid4, NewRecord(uuid4, task_fn))
    /\ locked' = FALSE
    /\ coros' = Insert(coros, uuid4, create_task(task_fn))
    /\ issued' = issued + 1
    /\ UNCHANGED <<clock, cleared, clearing, reading>>
    /\ StoreFollowsInsert(uuid4)

\* What add_task gives its caller: the id, or the exception of its log line.
AddTaskOutcome(task_fn) ==
    [op |-> "add_task", val |-> uuid4, raised |-> LogAdded(task_fn), status |-> ""]

add_task(task_fn) ==
    /\ AddTaskBody(task_fn)
    /\ returned' = AddTaskOutcome(task_fn)
    /\ UNCHANGED <<global_queue, created, obtained>>

\* ----------------------------------------------------------- _execute_task
\* Faulty variant: the first locked block sets RUNNING and stamps nothing.
SetRunning_NoStamp(rec) ==
    [rec EXCEPT !.status = RUNNING]

\* Faulty variant: started_at is read from a clock one second ahead of
\* the clock of created_at and completed_at.
SetRunning_ClockAhead(rec) ==
    [rec EXCEPT !.status = RUNNING, !.started_at = isoformat(clock + UnitsPerSec)]

\* The first locked block: RUNNING and started_at.
SetRunning(rec) ==
    [rec EXCEPT !.status = RUNNING, !.started_at = isoformat(clock)]

\* Faulty variant: the second locked block stores no result.
SetCompleted_NoResult(rec, result) ==
    [rec EXCEPT !.status = COMPLETED, !.completed_at = isoformat(clock)]

\* The second locked block: COMPLETED, the result and completed_at.
SetCompleted(rec, result) ==
    [rec EXCEPT !.status = COMPLETED, !.result = result,
                !.completed_at = isoformat(clock)]

\* error_details of the except block.
error_details(task_fn) ==
    <<[error_type |-> task_fn.exc_type,
       error_message |-> task_fn.exc_msg,
       traceback |-> "Traceback (most recent call last): ..."]>>

\* Faulty variant: a failed job is put back to PENDING for a retry.
SetFailed_Retry(rec, err) ==
    [rec EXCEPT !.status = PENDING, !.error = err,
                !.completed_at = isoformat(clock)]

\* Faulty variant: the except block also stores the message as the result.
SetFailed_ResultToo(rec, err) ==
    [rec EXCEPT !.status = FAILED, !.error = err,
                !.result = err[1].error_message,
                !.completed_at = isoformat(clock)]

\* Faulty variant: the except block stores the error and forgets the status.
SetFailed_NoStatus(rec, err) ==
    [rec EXCEPT !.error = err, !.completed_at = isoformat(clock)]

\* The except block's locked block: FAILED, the error and completed_at.
SetFailed(rec, err) ==
    [rec EXCEPT !.status = FAILED, !.error = err,
                !.completed_at = isoformat(clock)]

\* "except Exception as e": which raised exceptions the clause catches.
Caught(task_fn) == task_fn.exc_base = "Exception"

\* Faulty variant: every record of the store is one shared dict.
Update_All(store, task_id, rec) ==
    IF task_id \in DOMAIN store THEN [k \in DOMAIN store |-> rec] ELSE store

\* Faulty variant: the update stores the record whether or not the id is
\* there.
Update_Upsert(store, task_id, rec) ==
    [k \in DOMAIN store \cup {task_id} |-> IF k = task_id THEN rec ELSE store[k]]

\* "if task_id in self._tasks" around each update of the record.
Update(store, task_id, rec) ==
    IF task_id \in DOMAIN store THEN [store EXCEPT ![task_id] = rec] ELSE store

\* 1 when "if task_id in self._tasks" is false, so the block is skipped.
Skips(store, task_id) == IF task_id \in DOMAIN store THEN 0 ELSE 1

\* Whether a terminal block, with its test, runs after the await.
HasTerminalBlock(task_fn) == task_fn.outcome = "return" \/ Caught(task_fn)

Rec(store, task_id) ==
    IF task_id \in DOMAIN store THEN store[task_id] ELSE NoRecord

\* The store once "await task_fn(...)" has returned or raised.
AfterAwait(store, task_id, task_fn) ==
    IF task_fn.outcome = "return"
    THEN Update(store, task_id, SetCompleted(Rec(store, task_id), task_fn.value))
    ELSE IF Caught(task_fn)
         THEN Update(store, task_id, SetFailed(Rec(store, task_id), error_details(task_fn)))
         ELSE store

\* Faulty variant: the coroutine's completion is run again on every wake-up.
EndPc_StillAwaiting(task_fn) == "awaiting"

\* How the coroutine ends: it returns, or the exception leaves it.
EndPc(task_fn) ==
    IF task_fn.outcome = "return" \/ Caught(task_fn) THEN "done" ELSE "raised"

\* Faulty variant: "await task_fn(...)" sits inside the "async with" block.
LockedDuringAwait_Held(task_fn) == TRUE

\* Whether the lock is held while the coroutine waits for task_fn: the first
\* "async with" block ends before the await.
LockedDuringAwait(task_fn) == FALSE

\* The loop runs the coroutine from its start to the await, and through the
\* rest when task_fn finishes without suspending.
ExecStart(task_id) ==
    /\ task_id \in DOMAIN coros
    /\ coros[task_id].pc = "scheduled"
    /\ ~locked
    /\ LET task_fn == coros[task_id].fn
           started == Update(tasks, task_id, SetRunning(Rec(tasks, task_id)))
       IN IF task_fn.suspends
          THEN /\ tasks' = started
               /\ coros' = [coros EXCEPT ![task_id].pc = "awaiting",
                                         ![task_id].skipped = @ + Skips(tasks, task_id)]
               /\ locked' = LockedDuringAwait(task_fn)
          ELSE /\ tasks' = AfterAwait(started, task_id, task_fn)
               /\ coros' = [coros EXCEPT ![task_id].pc = EndPc(task_fn),
                                         ![task_id].ended = clock,
                                         ![task_id].skipped =
                                             @ + Skips(tasks, task_id)
                                               + (IF HasTerminalBlock(task_fn)
                                                  THEN Skips(started, task_id)
                                                  ELSE 0)]
               /\ locked' = FALSE
    /\ returned' = Idle
    /\ UNCHANGED <<clock, issued, cleared>>
    /\ Others

\* task_fn finishes after a suspension and the coroutine runs to its end.
ExecResume(task_id) ==
    /\ task_id \in DOMAIN coros
    /\ coros[task_id].pc = "awaiting"
    /\ coros[task_id].fn.outcome # "hang"
    /\ ~locked
    /\ tasks' = AfterAwait(tasks, task_id, coros[task_id].fn)
    /\ coros' = [coros EXCEPT ![task_id].pc = EndPc(coros[task_id].fn),
                              ![task_id].ended = clock,
                              ![task_id].skipped =
                                  @ + (IF HasTerminalBlock(coros[task_id].fn)
                                       THEN Skips(tasks, task_id) ELSE 0)]
    /\ locked' = FALSE
    /\ returned' = Idle
    /\ UNCHANGED <<clock, issued, cleared>>
    /\ Others

\* --------------------------------------------------------- clear_completed
\* Faulty variant: the age is taken from created_at, whatever the status.
ShouldRemove_ByCreation(task, now, max_age_seconds) ==
    now - fromisoformat(task.created_at) > max_age_seconds * UnitsPerSec

\* Faulty variant: the age test is >= instead of >.
ShouldRemove_Inclusive(task, now, max_age_seconds) ==
    /\ task.status \in {COMPLETED, FAILED}
    /\ task.completed_at # NoTime
    /\ now - fromisoformat(task.completed_at) >= max_age_seconds * UnitsPerSec

\* The test of the sweep's loop body: a terminal record with a completed_at
\* whose age, (now - completed).total_seconds(), exceeds max_age_seconds.
ShouldRemove(task, now, max_age_seconds) ==
    /\ task.status \in {COMPLETED, FAILED}
    /\ task.completed_at # NoTime
    /\ now - fromisoformat(task.completed_at) > max_age_seconds * UnitsPerSec

to_remove(now, max_age_seconds) ==
    {task_id \in DOMAIN tasks : ShouldRemove(tasks[task_id], now, max_age_seconds)}

\* clear_completed as the one event loop runs it: nothing else runs between
\* its statements, and the lock is free when it is called.
clear_completed(max_age_seconds) ==
    /\ ~locked
    /\ tasks' = Delete(tasks, to_remove(clock, max_age_seconds))
    /\ locked' = FALSE
    /\ returned' = [op |-> "clear_completed",
                    val |-> Cardinality(to_remove(clock, max_age_seconds)),
                    raised |-> "", status |-> ""]
    /\ cleared' = cleared + returned'.val
    /\ UNCHANGED <<coros, clock, issued>>
    /\ Others

\* ------------------------------------------------------------------ reads
NotFound == [task_id |-> 0, status |-> "TaskNotFoundError", result |-> None,
             error |-> NoError, created_at |-> NoTime, started_at |-> NoTime,
             completed_at |-> NoTime, function_name |-> ""]

\* get_task_status: TaskNotFoundError, or a copy of the record.
get_task_status(task_id) ==
    IF task_id \notin DOMAIN tasks THEN NotFound ELSE tasks[task_id]

\* list(self._tasks.values()): the records in the dict's order.
Values == [i \in 1..Len(order) |-> tasks[order[i]]]

\* "if status_filter:": None (no filter) is falsy, every TaskStatus is a
\* non-empty string.
Truthy(status_filter) == status_filter # None /\ status_filter # ""

\* Faulty variant: the comprehension keeps the records that do not match.
Matches_Negated(t, status_filter) == t.status # status_filter

\* t["status"] == status_filter
Matches(t, status_filter) == t.status = status_filter

list_tasks(status_filter) ==
    IF Truthy(status_filter)
    THEN SelectSeq(Values, LAMBDA t : Matches(t, status_filter))
    ELSE Values

\* Faulty variant: the elif chain has no branch for FAILED.
Bump_NoFailed(stats, status) ==
    IF status = PENDING THEN [stats EXCEPT !.pending = @ + 1]
    ELSE IF status = RUNNING THEN [stats EXCEPT !.running = @ + 1]
    ELSE IF status = COMPLETED THEN [stats EXCEPT !.completed = @ + 1]
    ELSE stats

\* The if/elif chain of get_queue_stats' loop body.
Bump(stats, status) ==
    IF status = PENDING THEN [stats EXCEPT !.pending = @ + 1]
    ELSE IF status = RUNNING THEN [stats EXCEPT !.running = @ + 1]
    ELSE IF status = COMPLETED THEN [stats EXCEPT !.completed = @ + 1]
    ELSE IF status = FAILED THEN [stats EXCEPT !.failed = @ + 1]
    ELSE stats

\* "for task in self._tasks.values()" over the records that are left.
RECURSIVE Tally(_, _)
Tally(records, stats) ==
    IF records = << >> THEN stats
    ELSE Tally(Tail(records), Bump(stats, Head(records).status))

get_queue_stats ==
    Tally(Values,
          [total |-> Cardinality(DOMAIN tasks), pending |-> 0, running |-> 0,
           completed |-> 0, failed |-> 0])

\* ------------------------------------------------------------- the clock
Tick ==
    /\ clock < MaxTime
    /\ clock' = clock + 1
    /\ returned' = Idle
    /\ UNCHANGED <<tasks, locked, coros, issued, cleared>>
    /\ Others

\* ------------------------------------------------------ callers of reads
\* Faulty variant: get_task_status returns the stored dict itself.
HandOutGet_NoCopy == "alias"

\* return self._tasks[task_id].copy(): a new dict with the same fields.
HandOutGet == "copy"

\* tasks = list(self._tasks.values()): a new list of the stored dicts.
HandOutList == "alias"

\* A caller calls get_task_status and keeps what it returns.
GetStatus(task_id) ==
    /\ task_id \in DOMAIN tasks
    /\ held' = [via |-> "get_task_status", kind |-> HandOutGet, id |-> task_id,
                rec |-> get_task_status(task_id),
                orig |-> get_task_status(task_id), written |-> FALSE,
                shared |-> HandOutGet = "alias"]
    /\ returned' = Idle
    /\ UNCHANGED <<tasks, locked, coros, clock, issued, global_queue, created,
                   obtained, cleared, order, clearing, reading>>

\* A caller calls list_tasks and keeps one record of the returned list.
ListTasks(status_filter, i) ==
    /\ i \in 1..Len(list_tasks(status_filter))
    /\ held' = [via |-> "list_tasks", kind |-> HandOutList,
                id |-> list_tasks(status_filter)[i].task_id,
                rec |-> list_tasks(status_filter)[i],
                orig |-> list_tasks(status_filter)[i], written |-> FALSE,
                shared |-> HandOutList = "alias"]
    /\ returned' = Idle
    /\ UNCHANGED <<tasks, locked, coros, clock, issued, global_queue, created,
                   obtained, cleared, order, clearing, reading>>

\* The caller assigns to a field of the record it holds:
\* record["status"] = "tampered".  The store sees it when the dict is shared.
CallerAssigns ==
    /\ held.via # ""
    /\ ~held.written
    /\ held' = [held EXCEPT !.rec.status = "tampered", !.written = TRUE]
    /\ tasks' = IF held.shared
                THEN [tasks EXCEPT ![held.id].status = "tampered"]
                ELSE tasks
    /\ returned' = Idle
    /\ UNCHANGED <<locked, coros, clock, issued, global_queue, created, obtained,
                   cleared, order, clearing, reading>>

\* A caller takes record i of list_tasks() and marks it finished in the
\* same breath: rec["status"] = COMPLETED; rec["completed_at"] = now.  The
\* store changes when the list hands out the stored dicts.
caller_marks_completed(i) ==
    /\ i \in 1..Len(list_tasks(None))
    /\ tasks' = IF HandOutList = "alias"
                THEN [tasks EXCEPT ![list_tasks(None)[i].task_id] =
                         [@ EXCEPT !.status = COMPLETED,
                                   !.completed_at = isoformat(clock)]]
                ELSE tasks
    /\ returned' = Idle
    /\ UNCHANGED <<locked, coros, clock, issued, cleared>>
    /\ Others

\* ------------------------------------ the event loop's thread and a reader's
\* The queue's coroutines run on one event loop, in one thread: the loop runs
\* one coroutine at a time and goes to another only where the running one
\* awaits something unfinished or ends.  "async with self._lock" never
\* suspends there, since no locked block of queue.py holds an await and the
\* lock is therefore free whenever a coroutine reaches one.  get_task_status
\* is a plain method that takes no lock; a second thread calls it, and runs
\* between any two statements of the loop's thread.

\* Where a coroutine stands while the loop is not running it: not started,
\* suspended in "await task_fn(...)" of line 132, ended.
Parked == {"scheduled", "awaiting", "done", "raised"}

\* Where the loop stands in add_task, by line of queue.py: before "async
\* with" of line 82, before the insert of line 83, before create_task.
InAddTask == {"A82", "A83", "A95"}

\* The loop is running no coroutine of the queue.
LoopIdle ==
    /\ clearing.pc = "idle"
    /\ \A k \in DOMAIN coros : coros[k].pc \in Parked

\* The loop is running the coroutine of task_id, or can take it up.
LoopRuns(task_id) ==
    /\ clearing.pc = "idle"
    /\ \A k \in DOMAIN coros \ {task_id} : coros[k].pc \in Parked

\* Where "await task_fn(...)" of line 132 leaves the coroutine.
AfterLine132(task_fn) ==
    IF task_fn.outcome = "return" THEN "L135"
    ELSE IF Caught(task_fn) THEN "L151" ELSE "raised"

\* A statement that leaves the lock as it is.
Goes(store, pc) == [store |-> store, pc |-> pc, locked |-> locked]

\* "async with self._lock": acquire() on the free lock, self._locked = True.
Enters(pc) == [store |-> tasks, pc |-> pc, locked |-> TRUE]

\* The last statement of a locked block and the release() that ends it.
Leaves(store, pc) == [store |-> store, pc |-> pc, locked |-> FALSE]

\* One statement of _execute_task(task_id, task_fn), by line of queue.py: the
\* store, the next statement and the lock after it.
Statement(task_id, pc, task_fn) ==
    LET has == task_id \in DOMAIN tasks
        now == isoformat(clock)
    IN CASE pc = "scheduled" -> Enters("L125")
         [] pc = "L125" -> IF has THEN Goes(tasks, "L126")
                                  ELSE Leaves(tasks, "L132")
         [] pc = "L126" ->
              Goes([tasks EXCEPT ![task_id].status = RUNNING], "L127")
         [] pc = "L127" ->
              Leaves([tasks EXCEPT ![task_id].started_at = now], "L132")
         [] pc = "L132" ->
              Goes(tasks, IF task_fn.suspends THEN "awaiting"
                          ELSE AfterLine132(task_fn))
         [] pc = "awaiting" -> Goes(tasks, AfterLine132(task_fn))
         [] pc = "L135" -> Enters("L136")
         [] pc = "L136" -> IF has THEN Goes(tasks, "L137")
                                  ELSE Leaves(tasks, "done")
         [] pc = "L137" ->
              Goes([tasks EXCEPT ![task_id].status = COMPLETED], "L138")
         [] pc = "L138" ->
              Goes([tasks EXCEPT ![task_id].result = task_fn.value], "L139")
         [] pc = "L139" ->
              Leaves([tasks EXCEPT ![task_id].completed_at = now], "done")
         [] pc = "L151" -> Enters("L152")
         [] pc = "L152" -> IF has THEN Goes(tasks, "L153")
                                  ELSE Leaves(tasks, "done")
         [] pc = "L153" ->
              Goes([tasks EXCEPT ![task_id].status = FAILED], "L154")
         [] pc = "L154" ->
              Goes([tasks EXCEPT ![task_id].error = error_details(task_fn)],
                   "L155")
         [] pc = "L155" ->
              Leaves([tasks EXCEPT ![task_id].completed_at = now], "done")

\* The loop's thread executes the next statement of _execute_task(task_id):
\* it takes the coroutine up when it runs no other, resumes it once task_fn
\* has finished, and goes on with it until it awaits or ends.
ExecStatement(task_id) ==
    /\ task_id \in DOMAIN coros
    /\ coros[task_id].pc \notin {"done", "raised"} \cup InAddTask
    /\ coros[task_id].pc = "awaiting" => coros[task_id].fn.outcome # "hang"
    /\ LoopRuns(task_id)
    /\ LET next == Statement(task_id, coros[task_id].pc, coros[task_id].fn)
       IN /\ tasks' = next.store
          /\ coros' = [coros EXCEPT ![task_id].pc = next.pc,
                                    ![task_id].ended =
                                        IF next.pc \in {"done", "raised"}
                                        THEN clock ELSE @,
                                    ![task_id].skipped =
                                        IF coros[task_id].pc \in {"L125", "L136", "L152"}
                                        THEN @ + Skips(tasks, task_id) ELSE @]
          /\ locked' = next.locked
    /\ returned' = Idle
    /\ UNCHANGED <<clock, issued, cleared, global_queue, created, obtained,
                   clearing, reading>>
    /\ StoreFollows

\* The loop takes up a coroutine that calls add_task(task_fn): line 80 draws
\* the id.  The frame of the call is kept under the id; the execution it
\* schedules at line 95 takes the frame over.
CallAddTask(task_fn) ==
    /\ issued < MaxTasks
    /\ LoopIdle
    /\ coros' = Insert(coros, uuid4, [create_task(task_fn) EXCEPT !.pc = "A82"])
    /\ issued' = issued + 1
    /\ returned' = Idle
    /\ UNCHANGED <<tasks, locked, clock, cleared, global_queue, created,
                   obtained, clearing, reading>>
    /\ StoreFollows

\* One statement of add_task after line 80: "async with self._lock" of line
\* 82, the dict assignment of lines 83-92 with the release that ends the
\* block, and lines 95-98, which schedule the execution, log and return.
AddTaskLine(task_id, pc, task_fn) ==
    CASE pc = "A82" -> Enters("A83")
      [] pc = "A83" ->
           Leaves(Insert(tasks, task_id, NewRecord(task_id, task_fn)), "A95")
      [] pc = "A95" -> Goes(tasks, "scheduled")

\* What the statement gives add_task's caller: nothing before line 98, then
\* the id, or the exception of line 97's log.
AddTaskReturns(task_id, pc, task_fn) ==
    IF pc = "A95"
    THEN [op |-> "add_task", val |-> task_id, raised |-> LogAdded(task_fn),
          status |-> ""]
    ELSE Idle

\* The loop's thread executes the next statement of add_task.
AddTaskStatement(task_id) ==
    /\ task_id \in DOMAIN coros
    /\ coros[task_id].pc \in InAddTask
    /\ LoopRuns(task_id)
    /\ LET next == AddTaskLine(task_id, coros[task_id].pc, coros[task_id].fn)
       IN /\ tasks' = next.store
          /\ coros' = [coros EXCEPT ![task_id].pc = next.pc]
          /\ locked' = next.locked
    /\ returned' = AddTaskReturns(task_id, coros[task_id].pc, coros[task_id].fn)
    /\ UNCHANGED <<clock, issued, cleared, global_queue, created, obtained,
                   clearing, reading>>
    /\ IF coros[task_id].pc = "A83"
       THEN StoreFollowsInsert(task_id) ELSE StoreFollows

\* No call of clear_completed is in flight.
NotClearing ==
    [pc |-> "idle", max_age_seconds |-> 0, now |-> 0, to_remove |-> << >>,
     left |-> << >>]

\* The loop of lines 229-235 over self._tasks.items(): the ids to remove, in
\* the dict's order.
Scan(now, max_age_seconds) ==
    SelectSeq(order, LAMBDA k : ShouldRemove(tasks[k], now, max_age_seconds))

\* The loop takes up a coroutine that calls clear_completed(max_age_seconds):
\* lines 225-226, "now = datetime.utcnow()" and "to_remove = []".
CallClearCompleted(max_age_seconds) ==
    /\ LoopIdle
    /\ clearing' = [NotClearing EXCEPT !.pc = "L228",
                                       !.max_age_seconds = max_age_seconds,
                                       !.now = clock]
    /\ returned' = Idle
    /\ UNCHANGED <<tasks, locked, coros, clock, issued, cleared, global_queue,
                   created, obtained, reading>>
    /\ StoreFollows

\* The loop's thread executes the next statement of clear_completed: "async
\* with self._lock" of line 228, the loop of lines 229-235, one "del" of
\* line 238 or the release when none is left, the return of lines 240-243.
ClearStatement ==
    /\ clearing.pc # "idle"
    /\ CASE clearing.pc = "L228" ->
              /\ clearing' = [clearing EXCEPT !.pc = "L229"]
              /\ locked' = TRUE
              /\ returned' = Idle
              /\ UNCHANGED <<tasks, cleared>>
         [] clearing.pc = "L229" ->
              /\ clearing' =
                    [clearing EXCEPT
                        !.pc = "L237",
                        !.to_remove = Scan(clearing.now, clearing.max_age_seconds),
                        !.left = Scan(clearing.now, clearing.max_age_seconds)]
              /\ returned' = Idle
              /\ UNCHANGED <<tasks, locked, cleared>>
         [] clearing.pc = "L237" /\ clearing.left # << >> ->
              /\ tasks' = Delete(tasks, {Head(clearing.left)})
              /\ clearing' = [clearing EXCEPT !.left = Tail(clearing.left)]
              /\ returned' = Idle
              /\ UNCHANGED <<locked, cleared>>
         [] clearing.pc = "L237" /\ clearing.left = << >> ->
              /\ clearing' = [clearing EXCEPT !.pc = "L240"]
              /\ locked' = FALSE
              /\ returned' = Idle
              /\ UNCHANGED <<tasks, cleared>>
         [] clearing.pc = "L240" ->
              /\ clearing' = NotClearing
              /\ returned' = [op |-> "clear_completed",
                              val |-> Len(clearing.to_remove),
                              raised |-> "", status |-> ""]
              /\ cleared' = cleared + Len(clearing.to_remove)
              /\ UNCHANGED <<tasks, locked>>
    /\ UNCHANGED <<coros, clock, issued, global_queue, created, obtained,
                   reading>>
    /\ StoreFollows

\* No call of get_task_status is in flight on the reader's thread.
NotReading == [pc |-> "idle", task_id |-> 0]

\* The reader's thread calls get_task_status(task_id) and executes lines
\* 185-186: "if task_id not in self._tasks: raise TaskNotFoundError(...)".
CallGetStatus(task_id) ==
    /\ reading.pc = "idle"
    /\ IF task_id \in DOMAIN tasks
       THEN /\ reading' = [pc |-> "L188", task_id |-> task_id]
            /\ returned' = Idle
       ELSE /\ returned' = [op |-> "get_task_status", val |-> task_id,
                            raised |-> "TaskNotFoundError", status |-> ""]
            /\ UNCHANGED reading
    /\ UNCHANGED <<tasks, locked, coros, clock, issued, held, global_queue,
                   created, obtained, cleared, order, clearing>>

\* The reader's thread executes line 188, "return
\* self._tasks[task_id].copy()", and keeps the copy; the subscript raises
\* KeyError when the loop's thread has deleted the key since line 185.
ReadStatement ==
    /\ reading.pc = "L188"
    /\ reading' = NotReading
    /\ IF reading.task_id \in DOMAIN tasks
       THEN /\ held' = [via |-> "get_task_status", kind |-> HandOutGet,
                        id |-> reading.task_id,
                        rec |-> get_task_status(reading.task_id),
                        orig |-> get_task_status(reading.task_id),
                        written |-> FALSE, shared |-> HandOutGet = "alias"]
            /\ returned' = [op |-> "get_task_status", val |-> reading.task_id,
                            raised |-> "",
                            status |-> get_task_status(reading.task_id).status]
       ELSE /\ returned' = [op |-> "get_task_status", val |-> reading.task_id,
                            raised |-> "KeyError", status |-> ""]
            /\ UNCHANGED held
    /\ UNCHANGED <<tasks, locked, coros, clock, issued, global_queue, created,
                   obtained, cleared, order, clearing>>

\* --------------------------------------------------------- get_query_queue
\* Faulty variant: the global is never read back, every call constructs.
NeedsNew_Always == TRUE

\* "if _global_queue is None"
NeedsNew == global_queue = 0

\* Handler h calls get_query_queue(): the global is set on the first call
\* and returned on every call.
get_query_queue(h) ==
    /\ IF NeedsNew
       THEN /\ created' = created + 1
            /\ global_queue' = created + 1
       ELSE UNCHANGED <<created, global_queue>>
    /\ obtained' = [obtained EXCEPT ![h] = global_queue']

\* ------------------------------------------------------ the HTTP handlers
\* POST /api/v1/chat/async: get_query_queue(), add_task(process_query), then
\* a TaskResponse that says "pending"; any exception becomes HTTP 500.  The
\* closure returns or raises as answer_financial_question does.
chat_async_v1 ==
    \E task_fn \in process_query :
        /\ get_query_queue("chat_async_v1")
        /\ AddTaskBody(task_fn)
        /\ returned' = IF LogAdded(task_fn) = ""
                       THEN [op |-> "chat_async_v1", val |-> uuid4,
                             raised |-> "", status |-> "pending"]
                       ELSE [op |-> "chat_async_v1", val |-> 0,
                             raised |-> "HTTP 500", status |-> ""]

\* TaskStatusResponse(**status_data): the seven fields of the response
\* model; function_name is not one of them.
TaskStatusResponse(status_data) ==
    [task_id |-> status_data.task_id, status |-> status_data.status,
     result |-> status_data.result, error |-> status_data.error,
     created_at |-> status_data.created_at,
     started_at |-> status_data.started_at,
     completed_at |-> status_data.completed_at]

\* HTTPException(status_code=404, detail=f"Task {task_id} not found"), as
\* the body FastAPI sends: the detail, its text in three pieces.
HTTPException(task_id) == [detail |-> <<"Task", task_id, "not found">>]

\* What get_task_status_v1 answers: 404 for TaskNotFoundError, else the
\* record as a TaskStatusResponse.
task_status_reply(task_id) ==
    LET status_data == get_task_status(task_id)
    IN IF status_data = NotFound
       THEN [code |-> 404, body |-> HTTPException(task_id)]
       ELSE [code |-> 200, body |-> TaskStatusResponse(status_data)]

\* GET /api/v1/tasks/{task_id}: get_query_queue(), then the reply.
get_task_status_v1(task_id) ==
    /\ get_query_queue("get_task_status_v1")
    /\ returned' = [op |-> "get_task_status_v1",
                    val |-> task_status_reply(task_id).code,
                    raised |-> IF task_status_reply(task_id).code = 404
                               THEN "HTTPException" ELSE "",
                    status |-> "",
                    body |-> task_status_reply(task_id).body]
    /\ UNCHANGED <<tasks, locked, coros, clock, issued, held, cleared, order,
                   clearing, reading>>

\* GET /queue/stats: get_query_queue(), then get_queue_stats() as JSON.
queue_stats ==
    /\ get_query_queue("queue_stats")
    /\ returned' = [op |-> "queue_stats", val |-> 200, raised |-> "",
                    status |-> "", body |-> get_queue_stats]
    /\ UNCHANGED <<tasks, locked, coros, clock, issued, held, cleared, order,
                   clearing, reading>>

\* ------------------------------------------------------ the specification
Init ==
    /\ tasks = << >>
    /\ locked = FALSE
    /\ coros = << >>
    /\ clock = 0
    /\ issued = 0
    /\ returned = Idle
    /\ held = NoHeld
    /\ global_queue = 0
    /\ created = 0
    /\ obtained = [h \in Handlers |-> 0]
    /\ cleared = 0
    /\ order = << >>
    /\ clearing = NotClearing
    /\ reading = NotReading

Next ==
    \/ \E task_fn \in Callables : add_task(task_fn)
    \/ \E task_id \in 1..MaxTasks : ExecStart(task_id)
    \/ \E task_id \in 1..MaxTasks : ExecResume(task_id)
    \/ \E max_age_seconds \in MaxAges : clear_completed(max_age_seconds)
    \/ Tick

Spec == Init /\ [][Next]_vars

\* The queue's own steps at one reading of the clock.
QueueStep ==
    \/ \E task_fn \in Callables : add_task(task_fn)
    \/ \E task_id \in 1..MaxTasks : ExecStart(task_id)
    \/ \E task_id \in 1..MaxTasks : ExecResume(task_id)
    \/ \E max_age_seconds \in MaxAges : clear_completed(max_age_seconds)

\* The queue with a caller that reads records, keeps one and assigns to it.
NextReaders ==
    \/ QueueStep
    \/ \E task_id \in 1..MaxTasks : GetStatus(task_id)
    \/ \E status_filter \in {None, PENDING, RUNNING, COMPLETED, FAILED} :
         \E i \in 1..MaxTasks : ListTasks(status_filter, i)
    \/ CallerAssigns

SpecReaders == Init /\ [][NextReaders]_vars

\* The queue's coroutines run statement by statement by the event loop's
\* thread, the clock, and a second thread that calls get_task_status.
NextThreads ==
    \/ \E task_fn \in Callables : CallAddTask(task_fn)
    \/ \E task_id \in 1..MaxTasks : AddTaskStatement(task_id)
    \/ \E task_id \in 1..MaxTasks : ExecStatement(task_id)
    \/ \E max_age_seconds \in MaxAges : CallClearCompleted(max_age_seconds)
    \/ ClearStatement
    \/ \E task_id \in 1..MaxTasks : CallGetStatus(task_id)
    \/ ReadStatement
    \/ Tick

SpecThreads == Init /\ [][NextThreads]_vars

\* The queue with a caller that marks listed records finished, so that
\* clear_completed can remove a record whose execution has not ended.
NextAbsent ==
    \/ QueueStep
    \/ \E i \in 1..MaxTasks : caller_marks_completed(i)

SpecAbsent == Init /\ [][NextAbsent]_vars

\* The server: its three handlers on the queue get_query_queue() gives
\* them, and the queue's own steps once that queue exists.
NextSingleton ==
    \/ chat_async_v1
    \/ \E task_id \in 1..MaxTasks : get_task_status_v1(task_id)
    \/ queue_stats
    \/ global_queue # 0 /\ QueueStep

SpecSingleton == Init /\ [][NextSingleton]_vars

\* ================================================================ claims
Terminal == {COMPLETED, FAILED}
Ids == 1..MaxTasks

\* The pairs (earlier status, later status) of one record that lie on
\* Pending -> Running -> Completed or on Pending -> Running -> Failed.
StatusPath ==
    { <<PENDING, PENDING>>, <<PENDING, RUNNING>>, <<PENDING, COMPLETED>>,
      <<PENDING, FAILED>>, <<RUNNING, RUNNING>>, <<RUNNING, COMPLETED>>,
      <<RUNNING, FAILED>>, <<COMPLETED, COMPLETED>>, <<FAILED, FAILED>> }

\* C1: over every step of every interleaving, what get_task_status reports
\* for an id moves only forward along Pending -> Running -> Completed or
\* Pending -> Running -> Failed: nothing leaves Completed or Failed, nothing
\* returns to Pending, a record that skips Running within one uninterrupted
\* run of its coroutine has been stamped started_at, and an id that was
\* issued before never turns from not-found into a fresh Pending record.
\* Successive get_task_status calls sample this chain, so the statuses they
\* return are a subsequence of one of the two paths.
C1_StatusOnlyAdvances ==
    [][\A task_id \in Ids :
         LET before == get_task_status(task_id)
             after == get_task_status(task_id)'
         IN \/ /\ <<before.status, after.status>> \in StatusPath
               /\ (before.status = PENDING /\ after.status \in Terminal
                     => after.started_at # NoTime)
            \/ /\ before = NotFound
               /\ after = NotFound \/ (after.status = PENDING /\ task_id \notin DOMAIN coros)
            \/ /\ before # NotFound
               /\ after = NotFound]_vars

\* C1 witness: one job has reached Completed and another Failed.
C1_Witness ==
    \E i, j \in DOMAIN tasks :
        /\ tasks[i].status = COMPLETED /\ coros[i].pc = "done"
        /\ tasks[j].status = FAILED /\ coros[j].pc = "done"

\* C2 (as claimed): every coroutine whose operation raised has ended by
\* returning, with its record Failed, an error stored and completed_at
\* stamped; no raised failure leaves the coroutine or the record Running.
C2_FailureAlwaysCaptured ==
    \A task_id \in DOMAIN coros :
        LET c == coros[task_id] IN
        (c.fn.outcome = "raise" /\ c.pc \notin {"scheduled", "awaiting"})
            => /\ c.pc = "done"
               /\ task_id \in DOMAIN tasks =>
                    /\ tasks[task_id].status = FAILED
                    /\ tasks[task_id].error = error_details(c.fn)
                    /\ tasks[task_id].completed_at # NoTime

\* C3 (as claimed): every Completed or Failed record has exactly one of
\* result and error non-null.
C3_ExactlyOneOutcome ==
    \A task_id \in DOMAIN tasks :
        tasks[task_id].status \in Terminal
            => ((tasks[task_id].result # None) # (tasks[task_id].error # NoError))

\* C3 (amended): a Failed record has an error and no result, a Completed
\* record has no error and the value its operation returned as result, so a
\* terminal record never has both, and has neither exactly when it is
\* Completed and its operation returned None.
C3_OutcomeMatchesOperation ==
    \A task_id \in DOMAIN tasks :
        LET r == tasks[task_id]
            fn == coros[task_id].fn
        IN r.status \in Terminal
            => /\ ~(r.result # None /\ r.error # NoError)
               /\ r.status = FAILED => (r.error # NoError /\ r.result = None)
               /\ r.status = COMPLETED => (r.error = NoError /\ r.result = fn.value)
               /\ (r.result = None /\ r.error = NoError)
                    <=> (r.status = COMPLETED /\ fn.value = None)

\* C3 witness: a Completed record of an operation that returned None, next
\* to a Failed record.
C3_Witness ==
    \E i, j \in DOMAIN tasks :
        /\ tasks[i].status = COMPLETED /\ tasks[i].result = None
        /\ coros[i].fn.outcome = "return"
        /\ tasks[j].status = FAILED

\* C4: in every state and for every record, a result implies Completed, an
\* error implies Failed, and the two are never both set.
C4_OutcomeImpliesStatus ==
    \A task_id \in DOMAIN tasks :
        LET r == tasks[task_id] IN
        /\ r.result # None => r.status = COMPLETED
        /\ r.error # NoError => r.status = FAILED
        /\ ~(r.result # None /\ r.error # NoError)

\* C4 witness: a record with a result beside a record with an error.
C4_Witness ==
    \E i, j \in DOMAIN tasks :
        /\ tasks[i].result # None /\ tasks[i].status = COMPLETED
        /\ tasks[j].error # NoError /\ tasks[j].status = FAILED

\* C5: while any operation is suspended, the lock is free and add_task can
\* run to its end for every callable (as long as the model's bound on the
\* number of submissions allows another one).
C5_SubmitNeverWaits ==
    (\E task_id \in DOMAIN coros : coros[task_id].pc = "awaiting")
        => /\ ~locked
           /\ issued < MaxTasks => \A task_fn \in Callables : ENABLED add_task(task_fn)

\* C5 witness: an operation that never returns is suspended, and an add_task
\* called after it has inserted its record and returned its id.
C5_Witness ==
    \E h \in DOMAIN coros :
        /\ coros[h].fn.outcome = "hang" /\ coros[h].pc = "awaiting"
        /\ returned.op = "add_task" /\ returned.raised = ""
        /\ returned.val > h /\ returned.val \in DOMAIN tasks

\* C6: in the state add_task returns into, get_task_status of the returned
\* id finds the record, Pending or Running, and the status chat_async_v1
\* writes in its response is the stored one.
C6_VisibleOnReturn ==
    (returned.op \in {"add_task", "chat_async_v1"} /\ returned.raised = "")
        => /\ get_task_status(returned.val) # NotFound
           /\ get_task_status(returned.val).status \in {PENDING, RUNNING}
           /\ returned.op = "chat_async_v1"
                => returned.status = get_task_status(returned.val).status

\* C6 witness: chat_async_v1 has answered "pending" while an earlier job is
\* Running.
C6_Witness ==
    /\ returned.op = "chat_async_v1" /\ returned.status = "pending"
    /\ \E task_id \in DOMAIN tasks :
        task_id # returned.val /\ tasks[task_id].status = RUNNING

\* C7 (as claimed): whenever add_task has inserted a record and scheduled
\* its execution, it has returned the id and not raised.
C7_AddTaskReturnsId ==
    (/\ returned.op = "add_task"
     /\ returned.val \in DOMAIN tasks
     /\ returned.val \in DOMAIN coros)
        => returned.raised = ""

\* C8: the id a submission produces was never produced before, whether or
\* not its record is still in the store.
C8_IdsNeverReused ==
    [][issued' # issued => returned'.val \notin DOMAIN coros]_vars

\* C8 witness: the first id was issued and removed, and add_task has just
\* returned another id.
C8_Witness ==
    /\ 1 \in DOMAIN coros /\ 1 \notin DOMAIN tasks
    /\ returned.op = "add_task" /\ returned.raised = ""
    /\ returned.val \in DOMAIN tasks

\* C9: clear_completed, for every max_age_seconds, keeps every Pending or
\* Running record as it is.
C9_ClearKeepsUnfinished ==
    [][\A max_age_seconds \in MaxAges :
         clear_completed(max_age_seconds)
            => \A task_id \in DOMAIN tasks :
                 tasks[task_id].status \in {PENDING, RUNNING}
                    => /\ task_id \in DOMAIN tasks'
                       /\ tasks'[task_id] = tasks[task_id]]_vars

\* C9 witness: clear_completed has removed a record while a job that
\* started before the clock last advanced is still Running.
C9_Witness ==
    /\ returned.op = "clear_completed" /\ returned.val >= 1
    /\ \E task_id \in DOMAIN tasks :
        /\ tasks[task_id].status = RUNNING
        /\ fromisoformat(tasks[task_id].started_at) < clock

\* The clock units since the coroutine of task_id finished.
Age(task_id) == clock - coros[task_id].ended

\* C10: clear_completed(max_age) removes exactly the Completed or Failed
\* records that finished more than max_age seconds before the call, leaves
\* the others as they are and returns the number it removed.
C10_ClearRemovesExactlyOld ==
    [][\A max_age_seconds \in MaxAges :
         clear_completed(max_age_seconds)
            => LET old == {task_id \in DOMAIN tasks :
                             /\ tasks[task_id].status \in Terminal
                             /\ Age(task_id) > max_age_seconds * UnitsPerSec}
               IN /\ DOMAIN tasks' = DOMAIN tasks \ old
                  /\ \A task_id \in DOMAIN tasks' : tasks'[task_id] = tasks[task_id]
                  /\ returned'.val = Cardinality(old)]_vars

\* C10 witness: clear_completed(0) has removed one record and kept a
\* terminal record whose age equals max_age.
C10_Witness ==
    /\ returned.op = "clear_completed" /\ returned.val = 1
    /\ \E task_id \in DOMAIN tasks :
        tasks[task_id].status \in Terminal /\ Age(task_id) = 0

\* An id that was issued and whose record clear_completed has removed.
Gone(task_id) == task_id \in DOMAIN coros /\ task_id \notin DOMAIN tasks

\* What an id without a record gets: TaskNotFoundError, and 404 over HTTP.
UnknownIsNotFound ==
    \A task_id \in 1..(MaxTasks + 1) :
        task_id \notin DOMAIN tasks
            => /\ get_task_status(task_id) = NotFound
               /\ task_status_reply(task_id).code = 404

\* C11: get_task_status raises TaskNotFoundError alike for an id never
\* issued and for an id whose record was removed, whatever else the store
\* holds, get_task_status_v1 answers 404 for it, and an id once removed
\* stays not found over every later step.
C11_RemovedStaysNotFound ==
    [][/\ UnknownIsNotFound
       /\ UnknownIsNotFound'
       /\ \A task_id \in Ids :
            Gone(task_id) => get_task_status(task_id)' = NotFound]_vars

\* C11 witness: the first id was removed, another job is in the store and a
\* third id was never issued.
C11_Witness ==
    /\ Gone(1)
    /\ 2 \in DOMAIN tasks
    /\ (MaxTasks + 1) \notin DOMAIN coros
    /\ task_status_reply(1).code = 404
    /\ task_status_reply(2).code = 200

\* C12: over every step, a Completed or Failed record that stays in the
\* store is reported by get_task_status exactly as before.
C12_TerminalRecordFrozen ==
    [][\A task_id \in DOMAIN tasks :
         (tasks[task_id].status \in Terminal /\ task_id \in DOMAIN tasks')
            => get_task_status(task_id)' = get_task_status(task_id)]_vars

\* C12 witness: a terminal record is still in the store after the clock has
\* advanced and a clear_completed has run.
C12_Witness ==
    /\ returned.op = "clear_completed"
    /\ \E task_id \in DOMAIN tasks :
        tasks[task_id].status \in Terminal /\ clock > coros[task_id].ended

\* C13: a run of _execute_task for one id leaves the set of stored ids and
\* every other record as they are, and when its own operation returned a
\* value the record ends Completed with that value.
C13_ExecuteWritesOwnRecord ==
    [][\A task_id \in Ids :
         (ExecStart(task_id) \/ ExecResume(task_id))
            => /\ DOMAIN tasks' = DOMAIN tasks
               /\ \A other \in DOMAIN tasks \ {task_id} : tasks'[other] = tasks[other]
               /\ (coros[task_id].fn.outcome = "return" /\ coros'[task_id].pc = "done"
                    /\ task_id \in DOMAIN tasks)
                    => /\ tasks'[task_id].status = COMPLETED
                       /\ tasks'[task_id].result = coros[task_id].fn.value]_vars

\* C13 witness: a job failed while another was in flight, and the other has
\* ended Completed with the value its operation returned.
C13_Witness ==
    \E i, j \in DOMAIN tasks :
        /\ tasks[i].status = FAILED
        /\ tasks[j].status = COMPLETED /\ tasks[j].result = coros[j].fn.value
        /\ tasks[j].result # None
        /\ i < j /\ coros[i].ended <= coros[j].ended

\* C14 (as claimed, in the form a finite run decides): once the coroutine
\* of a job has run to its end, the job's record, if still stored, is
\* Completed or Failed.
C14_EndedJobsAreTerminal ==
    \A task_id \in DOMAIN coros \cap DOMAIN tasks :
        coros[task_id].pc \notin {"scheduled", "awaiting"}
            => tasks[task_id].status \in Terminal

\* The records of the store with a given status.
WithStatus(status) == {task_id \in DOMAIN tasks : tasks[task_id].status = status}

\* C18: get_queue_stats counts the store as it is: total is the number of
\* records, each status count the number of records with that status, and
\* total is the sum of the four.
C18_StatsAreCensus ==
    LET stats == get_queue_stats IN
    /\ stats.total = Cardinality(DOMAIN tasks)
    /\ stats.pending = Cardinality(WithStatus(PENDING))
    /\ stats.running = Cardinality(WithStatus(RUNNING))
    /\ stats.completed = Cardinality(WithStatus(COMPLETED))
    /\ stats.failed = Cardinality(WithStatus(FAILED))
    /\ stats.total = stats.pending + stats.running + stats.completed + stats.failed

\* C18 witness: the store holds a Failed and a Running record.
C18_Witness ==
    /\ get_queue_stats.failed = 1
    /\ get_queue_stats.running = 1
    /\ get_queue_stats.total = 2

Range(seq) == {seq[i] : i \in 1..Len(seq)}

\* C19: list_tasks(status) returns each stored record with that status
\* once and nothing else, for the four statuses; list_tasks() returns each
\* stored record once; no returned record carries the id of a removed one.
C19_ListIsStoreFiltered ==
    /\ \A status \in {PENDING, RUNNING, COMPLETED, FAILED} :
        /\ Range(list_tasks(status)) = {tasks[task_id] : task_id \in WithStatus(status)}
        /\ Len(list_tasks(status)) = Cardinality(WithStatus(status))
    /\ Range(list_tasks(None)) = {tasks[task_id] : task_id \in DOMAIN tasks}
    /\ Len(list_tasks(None)) = Cardinality(DOMAIN tasks)
    /\ \A task_id \in Ids :
        Gone(task_id) => \A t \in Range(list_tasks(None)) : t.task_id # task_id

\* C19 witness: one record was removed and the remaining one is Running, so
\* list_tasks(RUNNING) has one record and list_tasks(COMPLETED) none.
C19_Witness ==
    /\ \E task_id \in Ids : Gone(task_id)
    /\ Len(list_tasks(RUNNING)) = 1
    /\ Len(list_tasks(COMPLETED)) = 0
    /\ Len(list_tasks(None)) = 1

\* A step leaves the record a caller got through `via` a dict of the
\* caller's own: a new read replaces it, the caller's assignment changes it
\* and nothing in the store, and no other step changes it at all.
KeepsOwnDict(via) ==
    held.via = via =>
        \/ \E task_id \in Ids : GetStatus(task_id)
        \/ \E status_filter \in {None, PENDING, RUNNING, COMPLETED, FAILED} :
             \E i \in Ids : ListTasks(status_filter, i)
        \/ /\ CallerAssigns
           /\ tasks' = tasks
           /\ get_queue_stats' = get_queue_stats
        \/ /\ ~CallerAssigns
           /\ held'.rec = held.rec

\* C15: a record taken from list_tasks keeps the fields it had when it was
\* handed out whatever the job does later, and the caller assigning to
\* one of its fields changes nothing that get_task_status or
\* get_queue_stats report.  (As stated by the claim; the code hands out the
\* stored dicts.)
C15_ListRecordsAreCopies == [][KeepsOwnDict("list_tasks")]_vars

\* C16: a record returned by get_task_status keeps its status, result,
\* error and timestamps whatever the job does later, and the caller
\* assigning to one of its fields leaves the stored record as it was.
C16_GetReturnsCopy == [][KeepsOwnDict("get_task_status")]_vars

\* A caller read a Running record with get_task_status and assigned to its
\* status; the job completed afterwards; the stored record shows Completed
\* and the caller's record shows only the caller's own change.
C16_Witness ==
    /\ held.via = "get_task_status"
    /\ held.written
    /\ held.orig.status = RUNNING
    /\ held.rec = [held.orig EXCEPT !.status = "tampered"]
    /\ held.id \in DOMAIN tasks
    /\ tasks[held.id].status = COMPLETED
    /\ tasks[held.id].completed_at # NoTime

\* A record caught between the writes of one transition.
Torn(rec) ==
    \/ rec.status = RUNNING /\ rec.started_at = NoTime
    \/ rec.status \in Terminal /\ rec.completed_at = NoTime
    \/ rec.status = FAILED /\ rec.error = NoError

\* C17: with get_task_status called from a thread of its own while the event
\* loop's thread runs the queue's coroutines, no record it returns is caught
\* between the writes of a transition: never Running without started_at,
\* never Completed or Failed without completed_at, never Failed without the
\* error.  (As stated by the claim; get_task_status takes no lock.)
C17_NoTornRead ==
    held.via = "get_task_status" => ~Torn(held.orig)

\* C20: every call of get_query_queue returns one and the same instance,
\* the one constructed by the first call, and no second instance is ever
\* constructed; every handler that has obtained the queue therefore reads
\* the one store the jobs were submitted to.
C20_OneSharedQueue ==
    /\ created <= 1
    /\ global_queue = created
    /\ \A h \in Handlers : obtained[h] \in {0, 1}
    /\ \A h1, h2 \in Handlers :
         obtained[h1] # 0 /\ obtained[h2] # 0 => obtained[h1] = obtained[h2]
    /\ (\E h \in Handlers : obtained[h] # 0) <=> created = 1
    /\ tasks # << >> => global_queue = 1

\* All three handlers hold the queue, a job submitted through chat_async_v1
\* was reported Completed by get_task_status_v1 and is counted by
\* get_queue_stats.
C20_Witness ==
    /\ \A h \in Handlers : obtained[h] = 1
    /\ created = 1
    /\ returned.op = "get_task_status_v1" /\ returned.val = 200
    /\ returned.body.status = COMPLETED
    /\ get_queue_stats.total >= 1

\* C21: every stored record that carries completed_at carries started_at,
\* and every record that has left Pending was stamped by the Running block:
\* no record is Completed or Failed without having been set Running, also
\* when its coroutine ran from start to end in one step.
C21_RunningAlwaysOccurred ==
    \A task_id \in DOMAIN tasks :
        /\ tasks[task_id].completed_at # NoTime => tasks[task_id].started_at # NoTime
        /\ tasks[task_id].status \in Terminal => tasks[task_id].started_at # NoTime
        /\ tasks[task_id].status = PENDING
             => /\ tasks[task_id].started_at = NoTime
                /\ tasks[task_id].completed_at = NoTime

\* C21 witness: an operation that raised without suspending left a Failed
\* record, stamped with both started_at and completed_at.
C21_Witness ==
    \E task_id \in DOMAIN tasks :
        /\ ~coros[task_id].fn.suspends
        /\ coros[task_id].fn.outcome = "raise"
        /\ tasks[task_id].status = FAILED
        /\ tasks[task_id].started_at # NoTime
        /\ tasks[task_id].completed_at # NoTime

\* C22: once the coroutine of a job whose operation returned v has ended,
\* the job's record, while stored, is Completed with result v (the value of
\* this job's own operation), error null and completed_at stamped at the
\* instant the coroutine ended, not before started_at.
C22_ReturnIsStored ==
    \A task_id \in DOMAIN tasks :
        (coros[task_id].fn.outcome = "return" /\ coros[task_id].pc = "done")
            => /\ tasks[task_id].status = COMPLETED
               /\ tasks[task_id].result = coros[task_id].fn.value
               /\ tasks[task_id].error = NoError
               /\ tasks[task_id].completed_at = isoformat(coros[task_id].ended)
               /\ fromisoformat(tasks[task_id].started_at)
                    <= fromisoformat(tasks[task_id].completed_at)

\* C22 witness: two jobs whose operations returned different values are
\* both Completed, each with its own value.
C22_Witness ==
    \E i, j \in DOMAIN tasks :
        /\ i # j
        /\ coros[i].pc = "done" /\ coros[j].pc = "done"
        /\ tasks[i].status = COMPLETED /\ tasks[i].result = "42"
        /\ tasks[j].status = COMPLETED /\ tasks[j].result = "answer"

\* Where the coroutine of task_id stands: "none" before add_task made it.
PcOf(cs, task_id) ==
    IF task_id \in DOMAIN cs THEN cs[task_id].pc ELSE "none"

\* The moves of a coroutine over one step: it is made once, it starts once
\* and it ends once.
PcPath ==
    { <<"none", "none">>, <<"none", "scheduled">>,
      <<"scheduled", "scheduled">>, <<"scheduled", "awaiting">>,
      <<"scheduled", "done">>, <<"scheduled", "raised">>,
      <<"awaiting", "awaiting">>, <<"awaiting", "done">>,
      <<"awaiting", "raised">>, <<"done", "done">>, <<"raised", "raised">> }

\* C23: exactly one execution exists for every id add_task inserted and
\* none for any other id; over every step an execution is made only by the
\* add_task call that inserts its record and returns its id, it moves only
\* forward (made, started, ended), a record is set Running only by the one
\* step in which its execution starts and is given its terminal stamp only
\* by the one step in which its execution ends.
C23_ExecutedExactlyOnce ==
    [][/\ DOMAIN coros' = 1..issued'
       /\ \A task_id \in Ids :
            LET before == PcOf(coros, task_id)
                after == PcOf(coros', task_id)
                rec == get_task_status(task_id)
                rec2 == get_task_status(task_id)'
            IN /\ <<before, after>> \in PcPath
               /\ (before = "none" /\ after # "none")
                    => /\ task_id \notin DOMAIN tasks
                       /\ task_id \in DOMAIN tasks'
                       /\ returned'.op \in {"add_task", "chat_async_v1"}
                       /\ returned'.raised = "" => returned'.val = task_id
               /\ (rec2 # NotFound /\ rec2.started_at # rec.started_at)
                    => before = "scheduled" /\ after # "scheduled"
               /\ (rec2 # NotFound /\ rec # NotFound /\
                   <<rec2.status, rec2.result, rec2.error, rec2.completed_at>>
                     # <<rec.status, rec.result, rec.error, rec.completed_at>>)
                    => \/ before = "scheduled" /\ after = "awaiting"
                              /\ rec2.status = RUNNING
                       \/ before \in {"scheduled", "awaiting"}
                              /\ after \in {"done", "raised"}]_vars

\* C23 witness: two ids were returned, both executions have started and
\* ended, one record Completed and one Failed.
C23_Witness ==
    /\ issued = MaxTasks
    /\ \A task_id \in Ids :
         task_id \in DOMAIN tasks /\ coros[task_id].pc = "done"
    /\ \E i, j \in Ids : tasks[i].status = COMPLETED /\ tasks[j].status = FAILED

\* A job whose operation is suspended for good.
Suspended(task_id) ==
    /\ task_id \in DOMAIN coros
    /\ coros[task_id].fn.outcome = "hang"
    /\ coros[task_id].pc = "awaiting"

\* C24 (as claimed, in the form a finite run decides): while the operation
\* of one job is suspended for good the lock is free, and every other stored
\* job whose operation has returned or failed, so that its coroutine has
\* ended, is Completed or Failed.
C24_SuspendedBlocksNobody ==
    \A i \in DOMAIN coros :
        Suspended(i)
            => /\ ~locked
               /\ \A j \in DOMAIN tasks \ {i} :
                    coros[j].pc \in {"done", "raised"}
                        => tasks[j].status \in Terminal

\* C25: with the clock never running backwards, the timestamps of every
\* stored record, read back from their ISO form, are in the order
\* created_at <= started_at <= completed_at, as far as they are set.
C25_TimestampsOrdered ==
    \A task_id \in DOMAIN tasks :
        LET rec == tasks[task_id] IN
        /\ rec.created_at # NoTime
        /\ rec.started_at # NoTime
             => fromisoformat(rec.created_at) <= fromisoformat(rec.started_at)
        /\ rec.completed_at # NoTime
             => fromisoformat(rec.created_at) <= fromisoformat(rec.completed_at)
        /\ (rec.started_at # NoTime /\ rec.completed_at # NoTime)
             => fromisoformat(rec.started_at) <= fromisoformat(rec.completed_at)

\* C25 witness: a record created and started at a whole second and
\* completed a fraction of a second later.
C25_Witness ==
    \E task_id \in DOMAIN tasks :
        /\ Len(tasks[task_id].created_at) = 1
        /\ tasks[task_id].started_at = tasks[task_id].created_at
        /\ tasks[task_id].completed_at # NoTime
        /\ Len(tasks[task_id].completed_at) = 2
        /\ fromisoformat(tasks[task_id].started_at)
             < fromisoformat(tasks[task_id].completed_at)

\* C26: over every step, an id that is stored stays stored unless the step
\* is a clear_completed call: a step that issues an id (add_task) adds that
\* id and removes none, a step of a coroutine (_execute_task) keeps the set
\* of ids and the passing of time removes nothing.  The reads
\* (get_task_status, list_tasks, get_queue_stats) are functions of the
\* store and have no step of their own.
C26_OnlyClearRemoves ==
    [][/\ DOMAIN tasks \subseteq DOMAIN tasks'
          \/ \E max_age_seconds \in MaxAges : clear_completed(max_age_seconds)
       /\ issued' # issued
            => DOMAIN tasks' = DOMAIN tasks \cup {issued'}
       /\ (issued' = issued /\ coros' # coros)
            => DOMAIN tasks' = DOMAIN tasks]_vars

\* C26 witness: with one Completed and one Running record stored, every
\* id issued so far is still stored.
C26_Witness ==
    /\ issued = MaxTasks
    /\ DOMAIN tasks = 1..issued
    /\ get_queue_stats.completed = 1
    /\ get_queue_stats.running = 1

\* C28: a step of _execute_task that finds no record under its id leaves
\* the store exactly as it was, the id still absent, and the coroutine goes
\* on as it would have with the record there: on to the await, or to its
\* end, which it reaches by returning whenever the operation returned or
\* raised an Exception.
C28_AbsentRecordIsSkipped ==
    [][\A task_id \in Ids :
         ((ExecStart(task_id) \/ ExecResume(task_id)) /\ task_id \notin DOMAIN tasks)
            => /\ tasks' = tasks
               /\ task_id \notin DOMAIN tasks'
               /\ coros'[task_id].skipped > coros[task_id].skipped
                    \/ ~HasTerminalBlock(coros[task_id].fn)
               /\ coros'[task_id].pc =
                    IF coros[task_id].pc = "scheduled" /\ coros[task_id].fn.suspends
                    THEN "awaiting" ELSE EndPc(coros[task_id].fn)
               /\ HasTerminalBlock(coros[task_id].fn)
                    => coros'[task_id].pc \in {"awaiting", "done"}]_vars

\* C28 witness: an execution found no record at its Running block and none
\* at its terminal block, has returned, and the id is still absent.
C28_Witness ==
    \E task_id \in DOMAIN coros :
        /\ coros[task_id].skipped = 2
        /\ coros[task_id].pc = "done"
        /\ task_id \notin DOMAIN tasks

\* C29: in every state reached through add_task, _execute_task and
\* clear_completed, the record of every job whose execution has not applied
\* a terminal transition is in the store, and no execution has ever found
\* its record missing at one of its "if task_id in self._tasks" tests.
C29_PendingWorkKeepsItsRecord ==
    \A task_id \in DOMAIN coros :
        /\ coros[task_id].skipped = 0
        /\ coros[task_id].pc # "done" => task_id \in DOMAIN tasks
        /\ task_id \notin DOMAIN tasks => coros[task_id].ended >= 0

\* C29 witness: clear_completed has just removed the record of a finished
\* job while another job, not yet started, and its Pending record remain.
C29_Witness ==
    /\ returned.op = "clear_completed"
    /\ returned.val = 1
    /\ \E i, j \in DOMAIN coros :
         /\ i \notin DOMAIN tasks /\ coros[i].pc = "done"
         /\ coros[j].pc = "scheduled"
         /\ j \in DOMAIN tasks /\ tasks[j].status = PENDING

\* C30: in every state the number of stored records, which is the total
\* that get_queue_stats reports, equals the number of add_task calls that
\* inserted a record less the sum of the values clear_completed has
\* returned so far.
C30_TotalIsInsertedLessCleared ==
    /\ get_queue_stats.total = issued - cleared
    /\ Cardinality(DOMAIN tasks) = issued - cleared
    /\ returned.op = "clear_completed" => returned.val <= cleared

\* C30 witness: two records were inserted, one clear_completed call removed
\* one of them and a later call returned 0; one record is left.
C30_Witness ==
    /\ issued = MaxTasks
    /\ cleared = 1
    /\ returned.op = "clear_completed" /\ returned.val = 0
    /\ get_queue_stats.total = MaxTasks - 1

====
